---------------------------- MODULE Spec2Model ----------------------------
(***************************************************************************)
(* A model of DmpBbo's ModelParametersLWR                                  *)
(* (src/src/functionapproximators/ModelParametersLWR.cpp): the parameters  *)
(* of a Locally Weighted Regression model, its kernel activations, its     *)
(* lines, the flat parameter vector and the activation cache.              *)
(*                                                                         *)
(* Numbers.  The code computes in IEEE doubles.  The model keeps the two   *)
(* features of doubles the code's behaviour depends on, at a reduced       *)
(* width:                                                                  *)
(*   - parameters, inputs and line values are integers carrying MantBits   *)
(*     significant bits; every sum, difference and product is rounded to   *)
(*     that precision (round to nearest, ties to even), as in a double;    *)
(*   - kernel activations are fixed-point numbers with ONE standing for    *)
(*     1.0; exp() underflows to exactly 0 for a far enough sample, as it   *)
(*     does in a double, and 0/0 is NaN.                                   *)
(* Parameters and inputs are finite numbers, and widths are non-zero.      *)
(***************************************************************************)
EXTENDS Integers, Sequences, FiniteSets, TLC

VARIABLES
  m,        \* m[i]: the ModelParametersLWR object i (its member variables)
  exists,   \* the objects constructed so far
  op,       \* the last call: its name, object, argument and code path taken
  out,      \* what the last call returned (or wrote to its output argument)
  nsets,    \* number of correct-length setParameterVectorAll calls so far
  ncalls    \* number of calls so far, where a behaviour's length is bounded

vars == <<m, exists, op, out, nsets, ncalls>>

-----------------------------------------------------------------------------
(* Bounds of the model *)

\* significant bits of a parameter value (53 in a double)
MantBits == 3

\* samples (rows) of an input batch
MaxSamples == 2

\* correct-length setParameterVectorAll calls in one behaviour
MaxSets == 1

\* calls in one behaviour of an object and its clone
MaxCalls == 3

\* (n_basis_functions, n_dims) of the models constructed
Shapes == { <<1, 1>>, <<2, 1>>, <<2, 2>> }

\* values of an input sample: near the centres, and far from all of them
InputVals == {2, 16}

\* the value a caller writes over one parameter through setParameterVectorAll
SetVals == {3}

\* the objects: 1 is constructed first, 2 is its clone
Objects == {1, 2}

-----------------------------------------------------------------------------
(* Arithmetic *)

Abs(x) == IF x < 0 THEN -x ELSE x

RECURSIVE Pow2(_)
Pow2(n) == IF n = 0 THEN 1 ELSE 2 * Pow2(n - 1)

\* the magnitudes below MantLimit are all representable
MantLimit == Pow2(MantBits)

\* the unit in the last place of a value of magnitude a
RECURSIVE Ulp(_)
Ulp(a) == IF a < MantLimit THEN 1 ELSE 2 * Ulp(a \div 2)

\* x rounded to MantBits significant bits, to nearest, ties to even
Rnd(x) ==
  LET a == Abs(x)
      u == Ulp(a)
      q == a \div u
      r == a % u
      up == (2 * r > u) \/ (2 * r = u /\ q % 2 = 1)
      v == (IF up THEN q + 1 ELSE q) * u
  IN  IF a < MantLimit THEN x ELSE IF x < 0 THEN -v ELSE v

FAdd(a, b) == Rnd(a + b)
FSub(a, b) == Rnd(a - b)
FMul(a, b) == Rnd(a * b)

\* 1.0 of a kernel activation
ONE == 100

\* a kernel activation that is not a number (0/0)
NaN == -1

\* exp(-k/4) in units of 1/ONE, rounded; exactly 0 from k = 22 on (underflow)
ExpTable ==
  << 78, 61, 47, 37, 29, 22, 17, 14, 11, 8, 6, 5, 4, 3, 2, 2, 1, 1, 1, 1, 1 >>

\* exp(-num/den) for num >= 0, den > 0, the argument taken in quarters
ExpNeg(num, den) ==
  LET k == (4 * num) \div den
  IN  IF k = 0 THEN ONE
      ELSE IF k <= Len(ExpTable) THEN ExpTable[k]
      ELSE 0

\* product of two activations, rounded to nearest
FixMul(a, b) == (2 * a * b + ONE) \div (2 * ONE)

\* the divisor of the floor added to the row sums
FloorDivisor == 100000

-----------------------------------------------------------------------------
(* Matrices: a matrix is the sequence of its rows, a row a sequence *)

Rows(M) == Len(M)
Cols(M) == IF Len(M) = 0 THEN 0 ELSE Len(M[1])

\* M.col(d)
Col(M, d) == [b \in 1..Rows(M) |-> M[b][d]]

\* v.segment(offset, size), offset counted from 0
Segment(v, offset, size) == SubSeq(v, offset + 1, offset + size)

\* the matrix of n rows whose column d is cols[d]
FromCols(cols, n) == [b \in 1..n |-> [d \in 1..Len(cols) |-> cols[d][b]]]

RECURSIVE SumSeq(_)
SumSeq(s) == IF s = <<>> THEN 0 ELSE Head(s) + SumSeq(Tail(s))

RECURSIVE MaxSeq(_)
MaxSeq(s) ==
  IF Len(s) = 1 THEN s[1]
  ELSE LET t == MaxSeq(Tail(s)) IN IF s[1] > t THEN s[1] ELSE t

\* a.row * c.row.transpose(): the products summed in order, each step rounded
RECURSIVE DotTo(_, _, _)
DotTo(a, c, n) ==
  IF n = 0 THEN 0
  ELSE IF n = 1 THEN FMul(a[1], c[1])
  ELSE FAdd(DotTo(a, c, n - 1), FMul(a[n], c[n]))

Dot(a, c) == DotTo(a, c, Len(a))

-----------------------------------------------------------------------------
(* The object and its constructor *)

\* an inputs_cached_ / normalized_kernel_activations_cached_ of size 0 x 0
Empty == <<>>

\* ModelParametersLWR::ModelParametersLWR(centers, widths, slopes, offsets,
\*   asymmetric_kernels, lines_pivot_at_max_activation)
ModelParametersLWR(centers, widths, slopes, offsets, asymmetric_kernels, lines_pivot_at_max_activation) ==
  [ centers    |-> centers,
    widths     |-> widths,
    slopes     |-> slopes,
    offsets    |-> offsets,
    asymmetric_kernels            |-> asymmetric_kernels,
    lines_pivot_at_max_activation |-> lines_pivot_at_max_activation,
    slopes_as_angles              |-> FALSE,
    caching                       |-> TRUE,
    all_values_vector_size |->
        Rows(centers) * Cols(centers) + Rows(widths) * Cols(widths)
      + Len(offsets) * 1 + Rows(slopes) * Cols(slopes),
    inputs_cached                        |-> Empty,
    normalized_kernel_activations_cached |-> Empty ]

\* the slot of an object that is not constructed yet
NoObject ==
  [ centers |-> <<>>, widths |-> <<>>, slopes |-> <<>>, offsets |-> <<>>,
    asymmetric_kernels |-> FALSE, lines_pivot_at_max_activation |-> FALSE,
    slopes_as_angles |-> FALSE, caching |-> FALSE,
    all_values_vector_size |-> 0,
    inputs_cached |-> Empty, normalized_kernel_activations_cached |-> Empty ]

\* getParameterVectorAllSize(): declared in the header, returns the size the
\* constructor computed
getParameterVectorAllSize(mi) == mi.all_values_vector_size

\* clearCache(): declared in the header; empties the cache entry
clearCache(mi) ==
  [mi EXCEPT !.inputs_cached = Empty,
             !.normalized_kernel_activations_cached = Empty]

\* clone() leaving the flags of the copy at false
clone_defaultFlags(mi) ==
  ModelParametersLWR(mi.centers, mi.widths, mi.slopes, mi.offsets,
                     FALSE, FALSE)

\* ModelParametersLWR::clone()
clone(mi) ==
  ModelParametersLWR(mi.centers, mi.widths, mi.slopes, mi.offsets,
                     mi.asymmetric_kernels, mi.lines_pivot_at_max_activation)

-----------------------------------------------------------------------------
(* Kernel activations (static functions) *)

\* the width used for sample value x against basis function bb in dimension
\* i_dim: the previous basis function's width left of the centre when the
\* kernels are asymmetric (bb counts from 1 here, from 0 in the code)
KernelWidth(widths, bb, i_dim, x, c, asymmetric_kernels) ==
  IF asymmetric_kernels /\ x < c /\ bb > 1
    THEN widths[bb - 1][i_dim]
    ELSE widths[bb][i_dim]

\* exp(-0.5*pow(x-c,2)/(w*w))
KernelFactor(x, c, w) ==
  LET d == FSub(x, c) IN ExpNeg(FMul(d, d), 2 * FMul(w, w))

\* kernel_activations(i_s,bb) after the dimensions 1..n have been multiplied in
RECURSIVE KernelProduct(_, _, _, _, _, _)
KernelProduct(centers, widths, x, bb, n, asymmetric_kernels) ==
  IF n = 0 THEN ONE
  ELSE LET c == centers[bb][n]
           w == KernelWidth(widths, bb, n, x[n], c, asymmetric_kernels)
       IN  FixMul(KernelProduct(centers, widths, x, bb, n - 1,
                                asymmetric_kernels),
                  KernelFactor(x[n], c, w))

\* static ModelParametersLWR::kernelActivations: n_samples x n_basis_functions
kernelActivations(centers, widths, inputs, asymmetric_kernels) ==
  [i_s \in 1..Rows(inputs) |->
     [bb \in 1..Rows(centers) |->
        KernelProduct(centers, widths, inputs[i_s], bb, Cols(centers),
                      asymmetric_kernels)]]

\* a / (sum + floor/FloorDivisor), rounded to nearest; 0/0 is NaN
Normalize(a, sum, floor) ==
  LET den == sum * FloorDivisor + floor
  IN  IF den = 0 THEN NaN
      ELSE (2 * a * FloorDivisor * ONE + den) \div (2 * den)

\* the activations of the kernels, each row divided by its sum; when a row
\* sums to exactly 0, maxCoeff()/FloorDivisor is first added to every row sum
NormalizedByRowSums(centers, widths, inputs, asymmetric_kernels) ==
  LET n_basis_functions == Rows(centers)
      n_samples == Rows(inputs)
      ka == kernelActivations(centers, widths, inputs, asymmetric_kernels)
      sum_kernel_activations == [i_s \in 1..n_samples |-> SumSeq(ka[i_s])]
      any_zero == \E i_s \in 1..n_samples : sum_kernel_activations[i_s] = 0
      floor == IF any_zero THEN MaxSeq(sum_kernel_activations) ELSE 0
  IN  [i_s \in 1..n_samples |->
         [bb \in 1..n_basis_functions |->
            Normalize(ka[i_s][bb], sum_kernel_activations[i_s], floor)]]

\* normalizedKernelActivations without the case of one basis function
normalizedKernelActivations_noSpecialCase(centers, widths, inputs, asymmetric_kernels) ==
  NormalizedByRowSums(centers, widths, inputs, asymmetric_kernels)

\* static ModelParametersLWR::normalizedKernelActivations
normalizedKernelActivations(centers, widths, inputs, asymmetric_kernels) ==
  IF Rows(centers) = 1
    THEN [i_s \in 1..Rows(inputs) |-> <<ONE>>]
    ELSE NormalizedByRowSums(centers, widths, inputs, asymmetric_kernels)

-----------------------------------------------------------------------------
(* Evaluation (member functions) *)

\* ModelParametersLWR::kernelActivations(inputs)
kernelActivationsOf(mi, inputs) ==
  kernelActivations(mi.centers, mi.widths, inputs, mi.asymmetric_kernels)

\* CacheHit, comparing the sizes of the matrices only
CacheHit_sizesOnly(mi, inputs) ==
  /\ mi.caching
  /\ Rows(inputs) = Rows(mi.inputs_cached)
  /\ Cols(inputs) = Cols(mi.inputs_cached)

\* whether the cache entry answers a call with these inputs
CacheHit(mi, inputs) ==
  /\ mi.caching
  /\ Rows(inputs) = Rows(mi.inputs_cached)
  /\ Cols(inputs) = Cols(mi.inputs_cached)
  /\ \A i_s \in 1..Rows(inputs) : \A i_dim \in 1..Cols(inputs) :
        inputs[i_s][i_dim] = mi.inputs_cached[i_s][i_dim]

\* ModelParametersLWR::normalizedKernelActivations(inputs): the object after
\* the call, the result, and whether the static function was called
normalizedKernelActivationsOf(mi, inputs) ==
  IF CacheHit(mi, inputs)
    THEN [ obj |-> mi,
           result |-> mi.normalized_kernel_activations_cached,
           recomputed |-> FALSE ]
    ELSE LET r == normalizedKernelActivations(mi.centers, mi.widths, inputs,
                                              mi.asymmetric_kernels)
         IN  [ obj |-> IF mi.caching
                         THEN [mi EXCEPT
                                 !.inputs_cached = inputs,
                                 !.normalized_kernel_activations_cached = r]
                         ELSE mi,
               result |-> r,
               recomputed |-> TRUE ]

\* ac[i_line] = slopes_.row(i_line) * centers_.row(i_line).transpose()
SlopesTimesCenters(mi) ==
  [i_line \in 1..Rows(mi.centers) |->
     Dot(mi.slopes[i_line], mi.centers[i_line])]

\* ModelParametersLWR::getLines(inputs): n_samples x n_basis_functions
getLines(mi, inputs) ==
  LET ac == SlopesTimesCenters(mi)
      ax_b == [i_s \in 1..Rows(inputs) |->
                 [bb \in 1..Rows(mi.slopes) |->
                    FAdd(Dot(inputs[i_s], mi.slopes[bb]), mi.offsets[bb])]]
  IN  IF mi.lines_pivot_at_max_activation
        THEN [i_s \in 1..Rows(inputs) |->
                [bb \in 1..Rows(mi.slopes) |-> FSub(ax_b[i_s][bb], ac[bb])]]
        ELSE ax_b

\* one row of (lines.array()*activations.array()).rowwise().sum(), in units
\* of 1/ONE; not a number when an activation is not
WeightedSum(line, activation) ==
  IF \E bb \in 1..Len(activation) : activation[bb] = NaN
    THEN [nan |-> TRUE, value |-> 0]
    ELSE [nan |-> FALSE, value |-> Dot(line, activation)]

\* ModelParametersLWR::locallyWeightedLines(inputs): the object after the call
\* (its cache may be filled) and the output
locallyWeightedLines(mi, inputs) ==
  LET lines == getLines(mi, inputs)
      nka == normalizedKernelActivationsOf(mi, inputs)
  IN  [ obj |-> nka.obj,
        result |-> [i_s \in 1..Rows(inputs) |->
                      WeightedSum(lines[i_s], nka.result[i_s])],
        recomputed |-> nka.recomputed ]

-----------------------------------------------------------------------------
(* Mutators *)

\* the offsets moved by slopes*centers towards the representation asked for
PivotedOffsets(mi, lines_pivot_at_max_activation) ==
  LET ac == SlopesTimesCenters(mi)
  IN  [i_line \in 1..Rows(mi.centers) |->
         IF lines_pivot_at_max_activation
           THEN FAdd(mi.offsets[i_line], ac[i_line])
           ELSE FSub(mi.offsets[i_line], ac[i_line])]

\* set_lines_pivot_at_max_activation without its early return
set_lines_pivot_at_max_activation_always(mi, lines_pivot_at_max_activation) ==
  [mi EXCEPT
     !.offsets = PivotedOffsets(mi, lines_pivot_at_max_activation),
     !.lines_pivot_at_max_activation = lines_pivot_at_max_activation]

\* set_lines_pivot_at_max_activation restoring b^new = b - ac with the mirror
\* image of the forward transform only up to the sign of b
set_lines_pivot_at_max_activation_oneWay(mi, lines_pivot_at_max_activation) ==
  IF mi.lines_pivot_at_max_activation = lines_pivot_at_max_activation
    THEN mi
    ELSE [mi EXCEPT
            !.offsets = PivotedOffsets(mi, TRUE),
            !.lines_pivot_at_max_activation = lines_pivot_at_max_activation]

\* ModelParametersLWR::set_lines_pivot_at_max_activation
set_lines_pivot_at_max_activation(mi, lines_pivot_at_max_activation) ==
  IF mi.lines_pivot_at_max_activation = lines_pivot_at_max_activation
    THEN mi
    ELSE [mi EXCEPT
            !.offsets = PivotedOffsets(mi, lines_pivot_at_max_activation),
            !.lines_pivot_at_max_activation = lines_pivot_at_max_activation]

\* set_slopes_as_angles without the reset of the flag
set_slopes_as_angles_kept(mi, slopes_as_angles) ==
  [mi EXCEPT !.slopes_as_angles = slopes_as_angles]

\* ModelParametersLWR::set_slopes_as_angles: sets the flag, reports "Not
\* implemented yet!!!" and resets the flag
set_slopes_as_angles(mi, slopes_as_angles) ==
  LET asked == [mi EXCEPT !.slopes_as_angles = slopes_as_angles]
  IN  [asked EXCEPT !.slopes_as_angles = FALSE]

-----------------------------------------------------------------------------
(* The flat parameter vector *)

\* ModelParametersLWR::getSelectableParameters
getSelectableParameters == {"centers", "widths", "offsets", "slopes"}

\* getParameterVectorMask with the slopes laid out before the offsets
getParameterVectorMask_slopesFirst(mi, selected_values_labels) ==
  LET size_c == Rows(mi.centers) * Cols(mi.centers)
      size_w == Rows(mi.widths) * Cols(mi.widths)
      size_s == Rows(mi.slopes) * Cols(mi.slopes)
      In(k, offset, size) == offset < k /\ k <= offset + size
  IN  [k \in 1..getParameterVectorAllSize(mi) |->
         IF In(k, 0, size_c)
           THEN IF "centers" \in selected_values_labels THEN 1 ELSE 0
         ELSE IF In(k, size_c, size_w)
           THEN IF "widths" \in selected_values_labels THEN 2 ELSE 0
         ELSE IF In(k, size_c + size_w, size_s)
           THEN IF "slopes" \in selected_values_labels THEN 4 ELSE 0
         ELSE IF "offsets" \in selected_values_labels THEN 3 ELSE 0]

\* ModelParametersLWR::getParameterVectorMask
getParameterVectorMask(mi, selected_values_labels) ==
  LET size_c == Rows(mi.centers) * Cols(mi.centers)
      size_w == Rows(mi.widths) * Cols(mi.widths)
      size_o == Len(mi.offsets) * 1
      size_s == Rows(mi.slopes) * Cols(mi.slopes)
      offset_c == 0
      offset_w == offset_c + size_c
      offset_o == offset_w + size_w
      offset_s == offset_o + size_o
      \* position k (from 1) lies in segment(offset, size)
      In(k, offset, size) == offset < k /\ k <= offset + size
  IN  [k \in 1..getParameterVectorAllSize(mi) |->
         IF "slopes" \in selected_values_labels /\ In(k, offset_s, size_s)
           THEN 4
         ELSE IF "offsets" \in selected_values_labels /\ In(k, offset_o, size_o)
           THEN 3
         ELSE IF "widths" \in selected_values_labels /\ In(k, offset_w, size_w)
           THEN 2
         ELSE IF "centers" \in selected_values_labels /\ In(k, offset_c, size_c)
           THEN 1
         ELSE 0]

\* atan2(s, 1.0), rounded: tan(0.5) < 1 and tan(1.5) = 14.1
Atan2One(s) ==
  LET a == IF Abs(s) = 0 THEN 0 ELSE IF Abs(s) <= 14 THEN 1 ELSE 2
  IN  IF s < 0 THEN -a ELSE a

\* the columns 1..n of M one after the other
RECURSIVE ColsTo(_, _)
ColsTo(M, n) == IF n = 0 THEN <<>> ELSE ColsTo(M, n - 1) \o Col(M, n)

\* a column of slopes as it goes into the vector
SlopeColumn(mi, i_dim) ==
  LET cur_slopes == Col(mi.slopes, i_dim)
  IN  IF mi.slopes_as_angles
        THEN [ii \in 1..Len(cur_slopes) |-> Atan2One(cur_slopes[ii])]
        ELSE cur_slopes

RECURSIVE SlopeColumnsTo(_, _)
SlopeColumnsTo(mi, n) ==
  IF n = 0 THEN <<>> ELSE SlopeColumnsTo(mi, n - 1) \o SlopeColumn(mi, n)

\* ModelParametersLWR::getParameterVectorAll
getParameterVectorAll(mi) ==
     ColsTo(mi.centers, Cols(mi.centers))
  \o ColsTo(mi.widths, Cols(mi.widths))
  \o mi.offsets
  \o SlopeColumnsTo(mi, Cols(mi.slopes))

\* WrongSize, rejecting the vectors that are too short only
WrongSize_shortOnly(mi, values) == mi.all_values_vector_size > Len(values)

\* the size check of setParameterVectorAll
WrongSize(mi, values) == mi.all_values_vector_size # Len(values)

\* the columns of centers (k = 0) or widths (k = 1) in the vector
ColumnsIn(mi, values, k) ==
  LET size == Rows(mi.centers)
      n_dims == Cols(mi.centers)
  IN  [i_dim \in 1..n_dims |->
         Segment(values, (k * n_dims + i_dim - 1) * size, size)]

\* some column of M differs from the column that is to overwrite it
ColumnDiffers(M, new_cols) ==
  \E i_dim \in 1..Cols(M) : \E b \in 1..Rows(M) :
     M[b][i_dim] # new_cols[i_dim][b]

\* CacheMustBeCleared, looking at the centers only
CacheMustBeCleared_centersOnly(mi, values) ==
  ColumnDiffers(mi.centers, ColumnsIn(mi, values, 0))

\* CacheMustBeCleared, looking at the widths only
CacheMustBeCleared_widthsOnly(mi, values) ==
  ColumnDiffers(mi.widths, ColumnsIn(mi, values, 1))

\* whether setParameterVectorAll calls clearCache(): a column of centers or
\* of widths changes
CacheMustBeCleared(mi, values) ==
  \/ ColumnDiffers(mi.centers, ColumnsIn(mi, values, 0))
  \/ ColumnDiffers(mi.widths, ColumnsIn(mi, values, 1))

\* ModelParametersLWR::setParameterVectorAll: the object after the call,
\* whether the size error was reported, whether clearCache() was called
setParameterVectorAll(mi, values) ==
  IF WrongSize(mi, values)
    THEN [obj |-> mi, error |-> TRUE, cleared |-> FALSE]
    ELSE
      LET size == Rows(mi.centers)
          n_dims == Cols(mi.centers)
          new_offsets == Segment(values, 2 * n_dims * size, size)
          new_slopes == [i_dim \in 1..n_dims |->
                           Segment(values, (2 * n_dims + i_dim) * size, size)]
          cleared == CacheMustBeCleared(mi, values)
          kept == IF cleared THEN clearCache(mi) ELSE mi
      IN  [ obj |-> [kept EXCEPT
                       !.centers = FromCols(ColumnsIn(mi, values, 0), size),
                       !.widths  = FromCols(ColumnsIn(mi, values, 1), size),
                       !.offsets = new_offsets,
                       !.slopes  = FromCols(new_slopes, size)],
            error |-> FALSE,
            cleared |-> cleared ]

-----------------------------------------------------------------------------
(* The calls a behaviour is made of *)

\* every input batch of a model of n_dims dimensions
Batches(n_dims) ==
  UNION { [1..n -> [1..n_dims -> InputVals]] : n \in 1..MaxSamples }

\* the sample with the value x in every dimension
InputRow(x, n_dims) == [d \in 1..n_dims |-> x]

\* the batches the cached evaluations are called with: two of one sample and
\* one of two samples
CachedBatches(n_dims) ==
  { <<InputRow(2, n_dims)>>, <<InputRow(16, n_dims)>>,
    <<InputRow(2, n_dims), InputRow(16, n_dims)>> }

\* the vectors a caller passes to setParameterVectorAll: the vector just read,
\* that vector with one value replaced (the last centre, the last width, the
\* first offset or the last slope), and vectors of a wrong length
SetArguments(mi) ==
  LET cur == getParameterVectorAll(mi)
      block == Rows(mi.centers) * Cols(mi.centers)
  IN  {cur}
      \cup { [cur EXCEPT ![k] = v] :
               k \in {block, 2 * block, 2 * block + 1, Len(cur)},
               v \in SetVals }
      \cup { SubSeq(cur, 1, Len(cur) - 1), cur \o <<0>> }

\* the label sets asked of getParameterVectorMask
MaskArguments ==
  { {}, {"centers"}, {"widths"}, {"offsets"}, {"slopes"},
    {"widths", "slopes"}, {"centers", "offsets", "other"},
    getSelectableParameters }

\* the record of a call: its name, object and argument, and what is seen of it:
\*   recomputed     the static normalizedKernelActivations was called
\*   cleared        clearCache() was called
\*   error          the size error was reported
\*   reread         the vector passed is the one getParameterVectorAll returns
\*   cached_before  inputs_cached_ before a setParameterVectorAll
\*   changed        the pivot flag was changed
\*   offsets_before offsets_ before a call that changed the pivot flag
\*   twice          the call before changed the pivot flag of this object too
\*   offsets_first  offsets_ before that first change
Call(name, i, arg) ==
  [ name |-> name, obj |-> i, arg |-> arg,
    recomputed |-> FALSE, cleared |-> FALSE, error |-> FALSE,
    reread |-> FALSE, cached_before |-> <<>>,
    changed |-> FALSE, offsets_before |-> <<>>,
    twice |-> FALSE, offsets_first |-> <<>> ]

\* the constructor's arguments: the fitted model of a given shape, each
\* parameter depending on its place
FittedCenters(n_basis, n_dims) ==
  [b \in 1..n_basis |-> [d \in 1..n_dims |-> 4 * (b - 1) + 2 * (d - 1)]]

FittedWidths(n_basis, n_dims) ==
  [b \in 1..n_basis |-> [d \in 1..n_dims |-> b]]

FittedSlopes(n_basis, n_dims) ==
  [b \in 1..n_basis |-> [d \in 1..n_dims |-> b + d - 1]]

FittedOffsets(n_basis) ==
  [b \in 1..n_basis |-> b - 1]

Constructed(mi) ==
  /\ m = [i \in Objects |-> IF i = 1 THEN mi ELSE NoObject]
  /\ exists = {1}
  /\ op = Call("construct", 1, <<>>)
  /\ out = <<>>
  /\ nsets = 0
  /\ ncalls = 0

Init ==
  \E shape \in Shapes,
     asymmetric_kernels \in BOOLEAN, lines_pivot_at_max_activation \in BOOLEAN :
    Constructed(ModelParametersLWR(FittedCenters(shape[1], shape[2]),
                                   FittedWidths(shape[1], shape[2]),
                                   FittedSlopes(shape[1], shape[2]),
                                   FittedOffsets(shape[1]),
                                   asymmetric_kernels,
                                   lines_pivot_at_max_activation))

Clone(i) ==
  /\ i \in exists
  /\ 2 \notin exists
  /\ m' = [m EXCEPT ![2] = clone(m[i])]
  /\ exists' = exists \cup {2}
  /\ op' = Call("clone", i, <<>>)
  /\ out' = <<>>
  /\ UNCHANGED nsets

NormalizedKernelActivations(i) ==
  /\ i \in exists
  /\ \E inputs \in CachedBatches(Cols(m[i].centers)) :
       \E r \in {normalizedKernelActivationsOf(m[i], inputs)} :
         /\ m' = [m EXCEPT ![i] = r.obj]
         /\ op' = [Call("normalizedKernelActivations", i, inputs)
                     EXCEPT !.recomputed = r.recomputed]
         /\ out' = r.result
  /\ UNCHANGED <<exists, nsets>>

LocallyWeightedLines(i) ==
  /\ i \in exists
  /\ \E inputs \in CachedBatches(Cols(m[i].centers)) :
       \E r \in {locallyWeightedLines(m[i], inputs)} :
         /\ m' = [m EXCEPT ![i] = r.obj]
         /\ op' = [Call("locallyWeightedLines", i, inputs)
                     EXCEPT !.recomputed = r.recomputed]
         /\ out' = r.result
  /\ UNCHANGED <<exists, nsets>>

SetLinesPivotAtMaxActivation(i) ==
  /\ i \in exists
  /\ \E v \in BOOLEAN :
       LET changed == m[i].lines_pivot_at_max_activation # v
           twice == /\ changed
                    /\ op.name = "set_lines_pivot_at_max_activation"
                    /\ op.obj = i
                    /\ op.changed
       IN  /\ m' = [m EXCEPT
                      ![i] = set_lines_pivot_at_max_activation(m[i], v)]
           /\ op' = [Call("set_lines_pivot_at_max_activation", i, v) EXCEPT
                       !.changed = changed,
                       !.offsets_before =
                          IF changed THEN m[i].offsets ELSE <<>>,
                       !.twice = twice,
                       !.offsets_first =
                          IF twice THEN op.offsets_before ELSE <<>>]
  /\ out' = <<>>
  /\ UNCHANGED <<exists, nsets>>

SetSlopesAsAngles(i) ==
  /\ i \in exists
  /\ \E v \in BOOLEAN :
       /\ m' = [m EXCEPT ![i] = set_slopes_as_angles(m[i], v)]
       /\ op' = Call("set_slopes_as_angles", i, v)
  /\ out' = <<>>
  /\ UNCHANGED <<exists, nsets>>

SetParameterVectorAll(i) ==
  /\ i \in exists
  /\ \E values \in SetArguments(m[i]) :
       /\ nsets < MaxSets \/ Len(values) # getParameterVectorAllSize(m[i])
       /\ \E r \in {setParameterVectorAll(m[i], values)} :
            /\ m' = [m EXCEPT ![i] = r.obj]
            /\ op' = [Call("setParameterVectorAll", i, values) EXCEPT
                        !.error = r.error,
                        !.cleared = r.cleared,
                        !.reread = (values = getParameterVectorAll(m[i])),
                        !.cached_before = m[i].inputs_cached]
            /\ nsets' = IF r.error THEN nsets ELSE nsets + 1
  /\ out' = <<>>
  /\ UNCHANGED exists

\* one object and the calls that change it
Next ==
  \/ NormalizedKernelActivations(1) /\ UNCHANGED ncalls
  \/ LocallyWeightedLines(1) /\ UNCHANGED ncalls
  \/ SetLinesPivotAtMaxActivation(1) /\ UNCHANGED ncalls
  \/ SetSlopesAsAngles(1) /\ UNCHANGED ncalls
  \/ SetParameterVectorAll(1) /\ UNCHANGED ncalls

Spec == Init /\ [][Next]_vars

-----------------------------------------------------------------------------
(* The functions that change nothing, each applied to a constructed model *)

\* widths and centre spacings of the models the functions are applied to
WidthVals == {1, 2}
CenterGaps == {4, 8}

InitEval ==
  \E shape \in Shapes, gap \in CenterGaps,
     asymmetric_kernels \in BOOLEAN, lines_pivot_at_max_activation \in BOOLEAN :
  \E width \in [1..shape[1] -> WidthVals] :
    LET n_basis == shape[1]
        n_dims  == shape[2]
        centers == [b \in 1..n_basis |->
                      [d \in 1..n_dims |-> gap * (b - 1) + 2 * (d - 1)]]
        widths  == [b \in 1..n_basis |-> [d \in 1..n_dims |-> width[b]]]
    IN  Constructed(ModelParametersLWR(centers, widths,
                                       FittedSlopes(n_basis, n_dims),
                                       FittedOffsets(n_basis),
                                       asymmetric_kernels,
                                       lines_pivot_at_max_activation))

\* the object is as constructed: no call was made yet
Fresh == op.name = "construct"

KernelActivations(i) ==
  /\ Fresh
  /\ \E inputs \in Batches(Cols(m[i].centers)) :
       /\ op' = Call("kernelActivations", i, inputs)
       /\ out' = kernelActivationsOf(m[i], inputs)
  /\ UNCHANGED <<m, exists, nsets, ncalls>>

\* the static normalizedKernelActivations, called with the object's parameters
StaticNormalizedKernelActivations(i) ==
  /\ Fresh
  /\ \E inputs \in Batches(Cols(m[i].centers)) :
       /\ op' = Call("static normalizedKernelActivations", i, inputs)
       /\ out' = normalizedKernelActivations(m[i].centers, m[i].widths,
                                             inputs, m[i].asymmetric_kernels)
  /\ UNCHANGED <<m, exists, nsets, ncalls>>

GetLines(i) ==
  /\ Fresh
  /\ \E inputs \in Batches(Cols(m[i].centers)) :
       /\ op' = Call("getLines", i, inputs)
       /\ out' = getLines(m[i], inputs)
  /\ UNCHANGED <<m, exists, nsets, ncalls>>

GetParameterVectorMask(i) ==
  /\ Fresh
  /\ \E selected \in MaskArguments :
       /\ op' = Call("getParameterVectorMask", i, selected)
       /\ out' = getParameterVectorMask(m[i], selected)
  /\ UNCHANGED <<m, exists, nsets, ncalls>>

GetParameterVectorAll(i) ==
  /\ Fresh
  /\ op' = Call("getParameterVectorAll", i, <<>>)
  /\ out' = getParameterVectorAll(m[i])
  /\ UNCHANGED <<m, exists, nsets, ncalls>>

NextEval ==
  \/ KernelActivations(1)
  \/ StaticNormalizedKernelActivations(1)
  \/ GetLines(1)
  \/ GetParameterVectorMask(1)
  \/ GetParameterVectorAll(1)

SpecEval == InitEval /\ [][NextEval]_vars

-----------------------------------------------------------------------------
(* An object and its clone, in behaviours of at most MaxCalls calls *)

InitClone ==
  \E asymmetric_kernels \in BOOLEAN, lines_pivot_at_max_activation \in BOOLEAN :
    Constructed(ModelParametersLWR(FittedCenters(2, 1), FittedWidths(2, 1),
                                   FittedSlopes(2, 1), FittedOffsets(2),
                                   asymmetric_kernels,
                                   lines_pivot_at_max_activation))

Counted == ncalls < MaxCalls /\ ncalls' = ncalls + 1

NextClone ==
  \/ Counted /\ Clone(1)
  \/ Counted /\ \E i \in Objects : NormalizedKernelActivations(i)
  \/ Counted /\ \E i \in Objects : SetLinesPivotAtMaxActivation(i)
  \/ Counted /\ \E i \in Objects : SetSlopesAsAngles(i)
  \/ Counted /\ \E i \in Objects : SetParameterVectorAll(i)

SpecClone == InitClone /\ [][NextClone]_vars

-----------------------------------------------------------------------------
(* Properties of the mutating calls, checked of Spec *)

Set == "setParameterVectorAll"
Pivot == "set_lines_pivot_at_max_activation"
NKA == "normalizedKernelActivations"

\* the outputs of the three evaluations of an object on each batch
Evaluations(mi) ==
  [inputs \in CachedBatches(Cols(mi.centers)) |->
     << getLines(mi, inputs),
        normalizedKernelActivationsOf(mi, inputs).result,
        locallyWeightedLines(mi, inputs).result >>]

\* C1: passing the vector getParameterVectorAll() returns straight back to
\* setParameterVectorAll() changes nothing: centers, widths, offsets and
\* slopes keep every element, and getLines, normalizedKernelActivations and
\* locallyWeightedLines return on each batch what they returned before.
C1_RoundTripIsNoOp ==
  [][ ( /\ op'.name = Set
        /\ op'.arg = getParameterVectorAll(m[op'.obj]) )
      => LET before == m[op'.obj]
             after  == m'[op'.obj]
         IN  /\ ~op'.error
             /\ after.centers = before.centers
             /\ after.widths  = before.widths
             /\ after.offsets = before.offsets
             /\ after.slopes  = before.slopes
             /\ Evaluations(after) = Evaluations(before) ]_vars

\* a vector just read was written back to a model of two basis functions in
\* two dimensions whose pivot flag is set and whose cache is filled
C1_Witness ==
  /\ op.name = Set
  /\ op.reread
  /\ ~op.error
  /\ Rows(m[1].centers) = 2 /\ Cols(m[1].centers) = 2
  /\ m[1].lines_pivot_at_max_activation
  /\ m[1].inputs_cached # Empty

\* C2: setParameterVectorAll with a vector whose length is not
\* getParameterVectorAllSize() reports the error and changes nothing: the
\* parameters, the flags and the cache entry are as before the call.
C2_WrongLengthRejected ==
  [][ ( /\ op'.name = Set
        /\ Len(op'.arg) # getParameterVectorAllSize(m[op'.obj]) )
      => /\ op'.error
         /\ ~op'.cleared
         /\ m' = m ]_vars

\* a vector of a wrong length was rejected by a model whose cache is filled
C2_Witness ==
  /\ op.name = Set
  /\ op.error
  /\ Len(op.arg) = getParameterVectorAllSize(m[1]) + 1
  /\ m[1].inputs_cached # Empty
  /\ m[1].lines_pivot_at_max_activation

\* C3: with caching on, normalizedKernelActivations(inputs) right after a
\* call that evaluated the activations returns the stored result without
\* recomputing exactly when the inputs have the shape and the values of that
\* call's; otherwise, and on the first call, it recomputes and the one cache
\* entry becomes (inputs, result). Two calls in a row with the same inputs
\* return the same result, the second without recomputing.
C3_CacheHitIffSameInputs ==
  [][ op'.name = NKA
      => LET i == op'.obj
             inputs == op'.arg
             computed == normalizedKernelActivations(
                           m[i].centers, m[i].widths, inputs,
                           m[i].asymmetric_kernels)
         IN  /\ m[i].caching
             /\ (op.name \in {NKA, "locallyWeightedLines"} /\ op.obj = i)
                  => (~op'.recomputed <=> inputs = op.arg)
             /\ ~op'.recomputed <=> inputs = m[i].inputs_cached
             /\ op.name = "construct" => op'.recomputed
             /\ op'.recomputed
                  => /\ out' = computed
                     /\ m'[i] = [m[i] EXCEPT
                           !.inputs_cached = inputs,
                           !.normalized_kernel_activations_cached = computed]
             /\ ~op'.recomputed
                  => /\ out' = m[i].normalized_kernel_activations_cached
                     /\ out' = computed
                     /\ m'[i] = m[i]
             /\ (op.name = NKA /\ op.obj = i /\ op.arg = inputs)
                  => out' = out /\ ~op'.recomputed ]_vars

\* a call of two samples was answered from the cache
C3_Witness ==
  /\ op.name = NKA
  /\ ~op.recomputed
  /\ Rows(op.arg) = 2
  /\ out = m[1].normalized_kernel_activations_cached
  /\ m[1].inputs_cached = op.arg

\* positions 1..n of the two vectors differ somewhere
DiffersWithin(v, w, n) == \E k \in 1..n : v[k] # w[k]

\* C4: setParameterVectorAll with a vector of the right length clears the cache
\* exactly when a value of centers or widths in the vector differs from the
\* current one; a vector that changes offsets or slopes only leaves the cache
\* entry as it is; and the normalizedKernelActivations that follows a clearing
\* call recomputes, whatever its inputs.
C4_CacheClearedIffKernelsChange ==
  [][ /\ (op'.name = Set /\ ~op'.error)
        => LET i == op'.obj
               n == 2 * Rows(m[i].centers) * Cols(m[i].centers)
           IN  /\ op'.cleared
                    <=> DiffersWithin(op'.arg, getParameterVectorAll(m[i]), n)
               /\ op'.cleared
                    => /\ m'[i].inputs_cached = Empty
                       /\ m'[i].normalized_kernel_activations_cached = Empty
               /\ ~op'.cleared
                    => /\ m'[i].inputs_cached = m[i].inputs_cached
                       /\ m'[i].normalized_kernel_activations_cached
                            = m[i].normalized_kernel_activations_cached
      /\ (op.name = Set /\ op.cleared /\ op'.name = NKA /\ op'.obj = op.obj)
        => /\ op'.recomputed
           /\ out' = normalizedKernelActivations(
                       m'[op.obj].centers, m'[op.obj].widths, op'.arg,
                       m'[op.obj].asymmetric_kernels) ]_vars

\* a filled cache was cleared by a vector that changed a width
C4_Witness ==
  /\ op.name = Set
  /\ op.cleared
  /\ op.cached_before # Empty
  /\ m[1].inputs_cached = Empty
  /\ m[1].centers = FittedCenters(Rows(m[1].centers), Cols(m[1].centers))
  /\ m[1].widths # FittedWidths(Rows(m[1].centers), Cols(m[1].centers))

\* the object as it was before the two calls that changed its pivot flag
BeforeTwoToggles == [m[op.obj] EXCEPT !.offsets = op.offsets_first]

\* getLines of the object with the pivot flag off: the values a*x + b
LinesAtZero(mi, inputs) ==
  getLines([mi EXCEPT !.lines_pivot_at_max_activation = FALSE], inputs)

\* C5 as stated: two calls of set_lines_pivot_at_max_activation in a row that
\* each change the flag (true, false, true or false, true, false) leave every
\* offset at the value it had and the output of getLines as it was.
C5_DoubleToggleRestoresExactly ==
  (op.name = Pivot /\ op.twice)
    => /\ m[op.obj].offsets = op.offsets_first
       /\ \A inputs \in Batches(Cols(m[op.obj].centers)) :
            getLines(m[op.obj], inputs) = getLines(BeforeTwoToggles, inputs)

\* C5, amended: the two calls restore the offsets up to the rounding of the
\* two additions: with u = 1/MantLimit the unit roundoff, an offset is off by
\* at most u * (|offset in between| + |offset after|); and an element of
\* getLines is off by at most that much plus the rounding of its own
\* evaluation, u * (|a*x+b| before and after + |element| before and after).
C5_DoubleToggleRestoresWithinRounding ==
  (op.name = Pivot /\ op.twice)
    => LET mi == m[op.obj]
           first == BeforeTwoToggles
           n_lines == Rows(mi.centers)
           drift == [b \in 1..n_lines |->
                       Abs(mi.offsets[b] - op.offsets_first[b])]
       IN  /\ mi.lines_pivot_at_max_activation = op.arg
           /\ \A b \in 1..n_lines :
                MantLimit * drift[b]
                  <= Abs(op.offsets_before[b]) + Abs(mi.offsets[b])
           /\ \A inputs \in Batches(Cols(mi.centers)) :
                LET la == getLines(mi, inputs)
                    lb == getLines(first, inputs)
                    ta == LinesAtZero(mi, inputs)
                    tb == LinesAtZero(first, inputs)
                IN  \A i_s \in 1..Rows(inputs) : \A b \in 1..n_lines :
                      MantLimit * Abs(la[i_s][b] - lb[i_s][b])
                        <= MantLimit * drift[b]
                           + Abs(ta[i_s][b]) + Abs(tb[i_s][b])
                           + Abs(la[i_s][b]) + Abs(lb[i_s][b])

\* two toggles in a row after which an offset is not what it was
C5_Witness ==
  /\ op.name = Pivot
  /\ op.twice
  /\ m[op.obj].offsets # op.offsets_first
  /\ m[op.obj].offsets # op.offsets_before

\* C10: set_lines_pivot_at_max_activation(v) changes nothing when v is the
\* current flag; otherwise it changes the flag and the offsets only, each
\* offset by the product of its row of slopes and its row of centers (added
\* for v = true, subtracted for v = false): centers, widths, slopes, the
\* slopes-as-angles flag and the cache entry are as before.
C10_PivotChangesOffsetsAndFlagOnly ==
  [][ op'.name = Pivot
      => LET i == op'.obj
             v == op'.arg
             before == m[i]
             after == m'[i]
         IN  /\ \A j \in Objects \ {i} : m'[j] = m[j]
             /\ IF v = before.lines_pivot_at_max_activation
                  THEN after = before
                  ELSE /\ after = [before EXCEPT
                                     !.offsets = after.offsets,
                                     !.lines_pivot_at_max_activation = v]
                       /\ Len(after.offsets) = Len(before.offsets)
                       /\ \A b \in 1..Len(before.offsets) :
                            LET ac == Dot(before.slopes[b], before.centers[b])
                            IN  after.offsets[b] =
                                  IF v THEN FAdd(before.offsets[b], ac)
                                       ELSE FSub(before.offsets[b], ac) ]_vars

\* the flag of a model with a filled cache was changed, and an offset with it
C10_Witness ==
  /\ op.name = Pivot
  /\ op.changed
  /\ m[1].lines_pivot_at_max_activation = op.arg
  /\ m[1].offsets # op.offsets_before
  /\ m[1].inputs_cached # Empty

\* the static normalizedKernelActivations of the object's current centers,
\* widths and asymmetric flag
Uncached(mi, inputs) ==
  normalizedKernelActivations(mi.centers, mi.widths, inputs,
                              mi.asymmetric_kernels)

\* C11: no stale read. After any sequence of normalizedKernelActivations,
\* locallyWeightedLines, setParameterVectorAll (of right or wrong length),
\* set_lines_pivot_at_max_activation and set_slopes_as_angles calls on a
\* model, normalizedKernelActivations(inputs) returns for every batch what
\* the static function computes from the current centers, widths and
\* asymmetric flag; the call just made did so; and a cache entry that is not
\* empty holds, for its inputs, the activations under the current centers and
\* widths.
C11_NoStaleRead ==
  \A i \in exists :
    /\ \A inputs \in CachedBatches(Cols(m[i].centers)) :
         normalizedKernelActivationsOf(m[i], inputs).result
           = Uncached(m[i], inputs)
    /\ (op.name = NKA /\ op.obj = i) => out = Uncached(m[i], op.arg)
    /\ m[i].inputs_cached = Empty
         <=> m[i].normalized_kernel_activations_cached = Empty
    /\ m[i].inputs_cached # Empty
         => m[i].normalized_kernel_activations_cached
              = Uncached(m[i], m[i].inputs_cached)

\* a centre or a width was changed through setParameterVectorAll and the
\* activations were asked for afterwards: the cache entry holds them, and they
\* are not the ones the model as constructed gives for these inputs
C11_Witness ==
  /\ op.name = NKA
  /\ op.recomputed
  /\ nsets = 1
  /\ m[1].inputs_cached = op.arg
  /\ << m[1].centers, m[1].widths >>
       # << FittedCenters(Rows(m[1].centers), Cols(m[1].centers)),
            FittedWidths(Rows(m[1].centers), Cols(m[1].centers)) >>
  /\ m[1].normalized_kernel_activations_cached
       # normalizedKernelActivations(
           FittedCenters(Rows(m[1].centers), Cols(m[1].centers)),
           FittedWidths(Rows(m[1].centers), Cols(m[1].centers)),
           op.arg, m[1].asymmetric_kernels)

-----------------------------------------------------------------------------
(* Properties of the functions that change nothing, checked of SpecEval *)

StaticNKA == "static normalizedKernelActivations"

\* a row of normalized activations sums to 1 within the rounding of its
\* elements, half a unit of 1/ONE each
SumsToOne(row) == 2 * Abs(SumSeq(row) - ONE) <= Len(row)

\* the sums of the rows of kernel activations of the call's batch
RawSums ==
  LET ka == kernelActivationsOf(m[op.obj], op.arg)
  IN  [i_s \in 1..Rows(op.arg) |-> SumSeq(ka[i_s])]

\* C6: with more than one basis function every row of
\* normalizedKernelActivations sums to 1 within tolerance, also in a batch
\* where a sample has no kernel activation at all and the floor is added.
\* Not so: the row of such a sample is 0 throughout when another sample of
\* the batch has some activation, and 0/0 throughout when none has.
C6_EveryRowSumsToOne ==
  (op.name = StaticNKA /\ Rows(m[op.obj].centers) > 1)
    => \A i_s \in 1..Rows(out) : SumsToOne(out[i_s])

\* C7: with one basis function normalizedKernelActivations returns a matrix of
\* n_samples rows and one column that is 1 throughout, whatever the kernel's
\* activation would be.
C7_OneBasisFunctionAllOnes ==
  (op.name = StaticNKA /\ Rows(m[op.obj].centers) = 1)
    => /\ Rows(out) = Rows(op.arg)
       /\ \A i_s \in 1..Rows(out) : out[i_s] = <<ONE>>

\* one basis function and a batch with a sample the kernel does not reach
C7_Witness ==
  /\ op.name = StaticNKA
  /\ Rows(m[op.obj].centers) = 1
  /\ Rows(op.arg) = MaxSamples
  /\ \E i_s \in 1..Rows(op.arg) : RawSums[i_s] = 0
  /\ \E i_s \in 1..Rows(op.arg) : RawSums[i_s] > 0
  /\ out = [i_s \in 1..MaxSamples |-> <<ONE>>]

\* the id the mask holds at a position of the block of a parameter
MaskId(label, id) == IF label \in op.arg THEN id ELSE 0

\* C8: getParameterVectorMask returns a vector of n_basis*(3*n_dims+1)
\* positions laid out as getParameterVectorAll lays out the parameters:
\* position (d-1)*n_basis + b of the first block is centers(b,d) and holds 1,
\* of the second block widths(b,d) and 2, position b of the third block is
\* offsets(b) and holds 3, the fourth block is slopes and holds 4; a block
\* whose name is not selected holds 0. For 2 basis functions in 1 dimension
\* and {"widths"} selected, positions [2,4) hold 2 and all others 0.
C8_MaskLayout ==
  (op.name = "getParameterVectorMask")
    => LET mi == m[op.obj]
           n_basis == Rows(mi.centers)
           n_dims == Cols(mi.centers)
           block == n_basis * n_dims
           all == getParameterVectorAll(mi)
       IN  /\ Len(out) = n_basis * (3 * n_dims + 1)
           /\ Len(out) = Len(all)
           /\ \A b \in 1..n_basis : \A d \in 1..n_dims :
                LET k == (d - 1) * n_basis + b
                IN  /\ all[k] = mi.centers[b][d]
                    /\ out[k] = MaskId("centers", 1)
                    /\ all[block + k] = mi.widths[b][d]
                    /\ out[block + k] = MaskId("widths", 2)
                    /\ all[2 * block + n_basis + k] = mi.slopes[b][d]
                    /\ out[2 * block + n_basis + k] = MaskId("slopes", 4)
           /\ \A b \in 1..n_basis :
                /\ all[2 * block + b] = mi.offsets[b]
                /\ out[2 * block + b] = MaskId("offsets", 3)
           /\ (n_basis = 2 /\ n_dims = 1 /\ op.arg = {"widths"})
                => out = <<0, 0, 2, 2, 0, 0, 0, 0>>

\* the mask of offsets and a label that selects nothing, two basis functions
\* in two dimensions
C8_Witness ==
  /\ op.name = "getParameterVectorMask"
  /\ op.arg = {"centers", "offsets", "other"}
  /\ Rows(m[op.obj].centers) = 2 /\ Cols(m[op.obj].centers) = 2
  /\ out = <<1, 1, 1, 1, 0, 0, 0, 0, 3, 3, 0, 0, 0, 0>>

-----------------------------------------------------------------------------
(* Properties of clone(), checked of SpecClone *)

\* C9: clone() returns an object with the centers, widths, slopes and offsets
\* of the original and its asymmetric-kernels and pivot flags, with
\* slopes-as-angles false and an empty cache, and leaves the original as it
\* is; afterwards a call on one of the two objects (setParameterVectorAll, a
\* pivot toggle, set_slopes_as_angles, a cached evaluation) leaves the other
\* one unchanged.
C9_CloneIsIndependentCopy ==
  [][ /\ op'.name = "clone"
        => LET i == op'.obj
           IN  /\ m'[i] = m[i]
               /\ m'[2].centers = m[i].centers
               /\ m'[2].widths = m[i].widths
               /\ m'[2].slopes = m[i].slopes
               /\ m'[2].offsets = m[i].offsets
               /\ m'[2].asymmetric_kernels = m[i].asymmetric_kernels
               /\ m'[2].lines_pivot_at_max_activation
                    = m[i].lines_pivot_at_max_activation
               /\ m'[2].slopes_as_angles = FALSE
               /\ m'[2].inputs_cached = Empty
               /\ m'[2].normalized_kernel_activations_cached = Empty
               /\ \A inputs \in Batches(Cols(m[i].centers)) :
                    /\ getLines(m'[2], inputs) = getLines(m[i], inputs)
                    /\ normalizedKernelActivationsOf(m'[2], inputs).result
                         = normalizedKernelActivationsOf(m[i], inputs).result
      /\ op'.name # "clone"
        => \A j \in Objects \ {op'.obj} : m'[j] = m[j] ]_vars

\* the clone of an object with both flags set and a filled cache, after a
\* setParameterVectorAll on the clone that changed a centre or a width
C9_Witness ==
  /\ exists = {1, 2}
  /\ op.name = Set /\ op.obj = 2 /\ op.cleared
  /\ m[1].asymmetric_kernels /\ m[1].lines_pivot_at_max_activation
  /\ m[2].asymmetric_kernels /\ m[2].lines_pivot_at_max_activation
  /\ m[1].inputs_cached # Empty
  /\ m[2].inputs_cached = Empty
  /\ m[1].offsets = m[2].offsets
  /\ << m[1].centers, m[1].widths >> # << m[2].centers, m[2].widths >>

=============================================================================
